---- MODULE Spec2Model ----
(***************************************************************************)
(* Model of the Stokefire Farcaster bot (src/src/index.ts, lines 1-421;    *)
(* src/unnamed/part_000 is the single-feed variant with the same loop).    *)
(*                                                                         *)
(* The process is a Node.js event loop.  processEvents is an async         *)
(* function: the code between two awaits runs atomically, and another      *)
(* callback (a timer tick) can run at every await.  Each action below is   *)
(* the completion of one awaited call together with the synchronous code   *)
(* that follows it up to the next await.                                   *)
(***************************************************************************)
EXTENDS Integers, Sequences, FiniteSets, TLC

\* ---------------------------------------------------------------- bounds
\* limit: $limit of EVENTS_QUERY (index.ts:82 sets 100, part_000:43 sets 50),
\* scaled down so that a kind can hold more rows than one page
BATCH_SIZE == 2
\* processEvents invocations that may be in flight at once
MaxConcurrent == 2
\* failures of the external services (Redis, GraphQL, Neynar) in one run
MaxFailures == 1
\* process crashes followed by a restart in one run
MaxCrashes == 1
\* the per-event counter of accepted publishes saturates here
MaxCount == 2
\* records in a response or a page given to a function on its own
MaxRows == 2
\* distinct times of those records
MaxTime == 2
\* seconds the clock moves on between two calls of the formatter
MaxClockSteps == 2
\* largest retention maximum of the Delivery Tracker
RetentionMax == 2

VARIABLES
    redis,      \* value under LAST_PROCESSED_KEY: <<>> (no key) or <<t>>
    feed,       \* the rows the game produces in this run
    source,     \* rows held by the game's GraphQL API so far
    now,        \* Date.now(), milliseconds
    timer,      \* setInterval(processEvents, 5000) has been registered
    cycles,     \* the processEvents invocations in flight, by slot
    initialWm,  \* history: the first value written under the key, <<>> before
    published,  \* history: casts accepted by Neynar, per event id
    settled,    \* history: ids whose accepted cast was followed by its watermark write
    failures,   \* history: failures of external services so far
    crashes,    \* history: crashes so far
    crashSnap,  \* history: what had been accepted / left unpersisted at the last crash
    redelivered,\* history: ids accepted before the last crash and accepted again after it
    proc,       \* the process: "running", "quitting" (cleanup awaits redis.quit), "exited"
    probe,      \* a call of one of the pure functions: its input, then its result
    tracked,    \* Delivery Tracker: retained message identifiers, most recent first
    retractions \* Delivery Tracker: retraction requests issued, in order

\* what the poll loop leaves alone
aux == <<proc, probe, tracked, retractions>>

vars == <<redis, feed, source, now, timer, cycles, initialWm, published, settled,
          failures, crashes, crashSnap, redelivered, proc, probe, tracked,
          retractions>>

\* ------------------------------------------------------------ pure helpers
Min(a, b) == IF a < b THEN a ELSE b

MinOf(S) == CHOOSE x \in S : \A y \in S : x <= y

\* the six collections of EventsResponse, in the order normalizeEvents reads them
KindOrder ==
    <<"GATHER_FOOD", "CHOP_WOOD", "BUILD_HUT", "COMMIT_DEFENSE",
      "ATTACK_VILLAGE", "REVEAL_BATTLE">>

Slots == 1..MaxConcurrent

\* Math.floor(Date.now() / 1000) - 300
FiveMinutesAgo(ms) == (ms \div 1000) - 300

Reverse(s) == [k \in 1..Len(s) |-> s[Len(s) + 1 - k]]

RECURSIVE Concat(_)
Concat(ss) == IF ss = <<>> THEN <<>> ELSE Head(ss) \o Concat(Tail(ss))

\* Array.prototype.sort with (a, b) => Number(b.timestamp) - Number(a.timestamp):
\* descending, and stable (rows that compare equal keep their order)
InsertDesc(s, x) ==
    LET NotLater(e) == e.timestamp >= x.timestamp
        Earlier(e) == e.timestamp < x.timestamp
    IN  SelectSeq(s, NotLater) \o <<x>> \o SelectSeq(s, Earlier)

\* no sort: the collections stay in the order they were concatenated
SortNone(s) == s

RECURSIVE SortDesc(_)
SortDesc(s) ==
    IF s = <<>> THEN <<>>
    ELSE InsertDesc(SortDesc(SubSeq(s, 1, Len(s) - 1)), s[Len(s)])

\* ------------------------------------------------------------ event source
\* all orders of the rows of P
Orderings(P) ==
    {s \in [1..Cardinality(P) -> P] : \A a, b \in 1..Cardinality(P) : a # b => s[a] # s[b]}

IsDesc(s) == \A k \in 1..(Len(s) - 1) : s[k].time >= s[k + 1].time

\* the where clause with _gte for _gt
MatchesWhereGte(row, timestamp) == row.time >= timestamp

\* where: { time<Kind>_gt: $timestamp }
MatchesWhere(row, timestamp) == row.time > timestamp

\* One collection of EVENTS_QUERY: the rows of this kind that match the where
\* clause, orderDirection "desc", cut to $limit.  The API is free in the order
\* of rows with equal times, and so in which of them the cut keeps.
Items(kind, timestamp, limit) ==
    LET S == {r \in source : r.kind = kind /\ MatchesWhere(r, timestamp)}
        n == Min(Cardinality(S), limit)
        Pages == {P \in SUBSET S :
                    /\ Cardinality(P) = n
                    /\ \A p \in P, q \in S \ P : q.time <= p.time}
    IN  UNION {{s \in Orderings(P) : IsDesc(s)} : P \in Pages}

\* the responses graphqlClient.request may resolve to: one item list per kind
RECURSIVE Responses(_, _, _)
Responses(n, timestamp, limit) ==
    IF n = 0 THEN {<<>>}
    ELSE {Append(r, items) : r \in Responses(n - 1, timestamp, limit),
                             items \in Items(KindOrder[n], timestamp, limit)}

\* --------------------------------------------------------- normalizeEvents
\* items.map(item => ({id, timestamp: item.time<Kind>, type, data: item}))
MapItems(items, type) ==
    [k \in 1..Len(items) |->
        [id |-> items[k].id, timestamp |-> items[k].time, type |-> type,
         hasDefender |-> items[k].hasDefender, data |-> items[k].data]]

normalizeEvents(response) ==
    SortDesc(Concat([k \in 1..Len(KindOrder) |-> MapItems(response[k], KindOrder[k])]))

\* ---------------------------------------------------- formatTimeDifference
\* the text is its number and its unit; "a few seconds ago" has number 0
formatTimeDifference(timestamp, ms) ==
    LET diff == ms - timestamp * 1000 IN
    IF diff < 60000 THEN [n |-> 0, unit |-> "a few seconds ago"]
    ELSE IF diff < 3600000
    THEN LET minutes == diff \div 60000
         IN  [n |-> minutes, unit |-> IF minutes > 1 THEN "minutes ago" ELSE "minute ago"]
    ELSE LET hours == diff \div 3600000
         IN  [n |-> hours, unit |-> IF hours > 1 THEN "hours ago" ELSE "hour ago"]

\* ------------------------------------------------------ formatEventMessage
\* strings that are searched are sequences of characters; a player that may
\* be absent is <<>> or <<username>>
Undefined == <<"undefined">>

Name(player) == IF player = <<>> THEN Undefined ELSE player[1]

\* an identity match in place of the containment test
IncludesExact(s, sub) == s = sub

\* String.prototype.includes
Includes(s, sub) ==
    \E k \in 0..(Len(s) - Len(sub)) : SubSeq(s, k + 1, k + Len(sub)) = sub

\* the parts a template literal is filled with
Message(template, username, other, amount, villagers, time) ==
    [template |-> template, username |-> username, other |-> other,
     amount |-> amount, villagers |-> villagers, time |-> time]

Returns(message) == [throws |-> FALSE, message |-> <<message>>]

\* TypeError: cannot read properties of undefined
Throws == [throws |-> TRUE, message |-> <<>>]

\* formatEventMessage(event) called when Date.now() is ms
formatEventMessage(event, ms) ==
    LET d == event.data
        time == formatTimeDifference(event.timestamp, ms)
        username == <<"@">> \o Name(IF d.player # <<>> THEN d.player ELSE d.attackerPlayer)
    IN  CASE event.type = "GATHER_FOOD" ->
                Returns(Message("gathered food with villagers", username, <<>>,
                                d.amount, d.numVillagers, time))
          [] event.type = "BUILD_HUT" ->
                Returns(Message(IF d.amount > 1 THEN "built huts" ELSE "built hut",
                                username, <<>>, d.amount, 0, time))
          [] event.type = "CHOP_WOOD" ->
                Returns(Message("gathered wood with villagers", username, <<>>,
                                d.amount, d.numVillagers, time))
          [] event.type = "COMMIT_DEFENSE" ->
                Returns(Message("committed their defense", username, <<>>, 0, 0, time))
          [] event.type = "ATTACK_VILLAGE" ->
                IF d.defenderPlayer = <<>> THEN Throws
                ELSE Returns(Message("raided village, tried to steal resources", username,
                                     <<"@">> \o d.defenderPlayer[1], d.amount, 0, time))
          [] event.type = "REVEAL_BATTLE" ->
                IF d.attackerPlayer = <<>> THEN Throws
                ELSE LET isAttackerWinner ==
                             Includes(d.winnerVillageIds, d.attackerPlayer[1])
                     IN  IF ~isAttackerWinner /\ d.defenderPlayer = <<>> THEN Throws
                         ELSE Returns(Message("revealed battle, won", username,
                                  <<"@">> \o (IF isAttackerWinner THEN d.attackerPlayer[1]
                                              ELSE d.defenderPlayer[1]),
                                  d.amount, 0, time))
          [] OTHER ->
                Returns(Message("performed an action", username, <<>>, 0, 0, time))

\* a formatter without the default branch
FormatThrowsUnknown(event) ==
    \/ formatEventMessage(event, now).throws
    \/ \A k \in 1..Len(KindOrder) : KindOrder[k] # event.type

\* the call formatEventMessage(event) in the loop of processEvents throws
FormatThrows(event) == formatEventMessage(event, now).throws

\* ---------------------------------------------------------------- the state
IdleCycle ==
    [pc |-> "idle", last |-> 0, batch |-> <<>>, i |-> 0, rejected |-> {}, wrote |-> <<>>]

Running == {c \in Slots : cycles[c].pc # "idle"}

\* the fields of an item that formatEventMessage reads
Data(player, attackerPlayer, defenderPlayer, winnerVillageIds, amount, numVillagers) ==
    [player |-> player, attackerPlayer |-> attackerPlayer,
     defenderPlayer |-> defenderPlayer, winnerVillageIds |-> winnerVillageIds,
     amount |-> amount, numVillagers |-> numVillagers]

Battle(kind) == kind \in {"ATTACK_VILLAGE", "REVEAL_BATTLE"}

\* a row of the feed: player "a" acts, against player "b" in the two battle
\* kinds, and a battle is won by village "2"
Row(id, time, kind, hasDefender) ==
    [id |-> id, time |-> time, kind |-> kind, hasDefender |-> hasDefender,
     data |-> Data(IF Battle(kind) THEN <<>> ELSE <<<<"a">>>>,
                   IF Battle(kind) THEN <<<<"a">>>> ELSE <<>>,
                   IF Battle(kind) /\ hasDefender THEN <<<<"b">>>> ELSE <<>>,
                   IF kind = "REVEAL_BATTLE" THEN <<"2">> ELSE <<>>, 1, 1)]

\* the watermark a first run writes with the clock values of Init
GraceStart == FiveMinutesAgo(1000000000)

\* the feeds of the runs, as offsets from the first watermark
\* rows before, at and after the first watermark
FeedRestart ==
    LET T == GraceStart IN
    {Row(1, T - 1, "GATHER_FOOD", TRUE), Row(2, T, "CHOP_WOOD", TRUE),
     Row(3, T + 1, "BUILD_HUT", TRUE), Row(4, T + 2, "COMMIT_DEFENSE", TRUE)}

\* five rows with distinct times
FeedFive ==
    LET T == GraceStart IN
    {Row(1, T + 1, "GATHER_FOOD", TRUE), Row(2, T + 2, "CHOP_WOOD", TRUE),
     Row(3, T + 3, "GATHER_FOOD", TRUE), Row(4, T + 4, "CHOP_WOOD", TRUE),
     Row(5, T + 5, "BUILD_HUT", TRUE)}

\* rows that share a time, within a kind and across kinds
FeedTies ==
    LET T == GraceStart IN
    {Row(1, T + 1, "GATHER_FOOD", TRUE), Row(2, T + 1, "GATHER_FOOD", TRUE),
     Row(3, T + 1, "REVEAL_BATTLE", TRUE)}

\* more rows of one kind than a page holds
FeedOverflow ==
    LET T == GraceStart IN
    {Row(1, T + 1, "BUILD_HUT", TRUE), Row(2, T + 2, "BUILD_HUT", TRUE),
     Row(3, T + 3, "BUILD_HUT", TRUE)}

\* a raid row without defenderPlayer
FeedMalformed ==
    LET T == GraceStart IN
    {Row(1, T + 1, "COMMIT_DEFENSE", TRUE), Row(2, T + 2, "ATTACK_VILLAGE", FALSE),
     Row(3, T + 3, "GATHER_FOOD", TRUE)}

LightFeeds == {FeedRestart, FeedMalformed}

Feeds == {FeedRestart, FeedFive, FeedTies, FeedOverflow, FeedMalformed}

Ids == {r.id : r \in feed}

\* startPolling() has called processEvents(), which has issued redis.get.
\* The rows of the feed are in the API already, or arrive while the bot runs.
InitWith(F) ==
    /\ redis = <<>>
    /\ feed \in F
    /\ source \in {{}, feed}
    /\ now = 1000000000
    /\ timer = FALSE
    /\ cycles = [c \in Slots |-> IF c = 1 THEN [IdleCycle EXCEPT !.pc = "get"] ELSE IdleCycle]
    /\ initialWm = <<>>
    /\ published = [id \in Ids |-> 0]
    /\ settled = {}
    /\ failures = 0
    /\ crashes = 0
    /\ crashSnap = [accepted |-> {}, inDoubt |-> {}, inLoop |-> FALSE]
    /\ redelivered = {}
    /\ proc = "running"
    /\ probe = <<>>
    /\ tracked = <<>>
    /\ retractions = <<>>

Init == InitWith(LightFeeds)

InitAll == InitWith(Feeds)

\* the game produces the rows of the feed
RowsArrive ==
    /\ source = {}
    /\ source' = feed
    /\ UNCHANGED aux
    /\ UNCHANGED <<redis, feed, now, timer, cycles, initialWm, published, settled,
                   failures, crashes, crashSnap, redelivered>>

\* ------------------------------------------------------------ processEvents
\* for (const event of eventsToProcess): take the next event, format it and
\* issue the post; a formatter that throws, or the end of the list, ends the
\* invocation (the throw lands in the catch of processEvents)
NextEvent(cy) ==
    IF cy.i < Len(cy.batch) /\ ~FormatThrows(cy.batch[cy.i + 1])
    THEN [cy EXCEPT !.pc = "post", !.i = cy.i + 1]
    ELSE IdleCycle

\* a processEvents that lets its errors out: the await in startPolling
\* rejects and setInterval is never reached
BecomeUncaught(c, cy) ==
    /\ cycles' = [cycles EXCEPT ![c] = cy]
    /\ timer' = (timer \/ (cy.pc = "idle" /\ failures' = failures))

\* the invocation in slot c moves to cy; startPolling registers the interval
\* timer as soon as the processEvents() it awaits has returned
Become(c, cy) ==
    /\ cycles' = [cycles EXCEPT ![c] = cy]
    /\ timer' = (timer \/ cy.pc = "idle")

\* a call to an external service fails: the error lands in a catch
Fails == /\ failures < MaxFailures
         /\ failures' = failures + 1

Bump(n) == Min(n + 1, MaxCount)

\* setInterval fires: processEvents() runs to its first await, redis.get
TimerTick ==
    /\ timer
    /\ \E c \in Slots :
        /\ cycles[c].pc = "idle"
        /\ \A d \in Slots : d < c => cycles[d].pc # "idle"
        /\ cycles' = [cycles EXCEPT ![c] = [IdleCycle EXCEPT !.pc = "get"]]
    /\ UNCHANGED aux
    /\ UNCHANGED <<redis, feed, source, now, initialWm, timer, published, settled,
                   failures,
                   crashes, crashSnap, redelivered>>

\* getLastProcessedTimestamp: redis.get resolves.  No key: the grace value is
\* computed and redis.set issued.  A key: it is returned and the fetch issued.
RedisGetResolves(c) ==
    /\ cycles[c].pc = "get"
    /\ IF redis = <<>>
       THEN Become(c, [cycles[c] EXCEPT !.pc = "init", !.last = FiveMinutesAgo(now)])
       ELSE Become(c, [cycles[c] EXCEPT !.pc = "fetch", !.last = redis[1]])
    /\ UNCHANGED aux
    /\ UNCHANGED <<redis, feed, source, now, initialWm, published, settled, failures,
                   crashes,
                   crashSnap, redelivered>>

RedisGetRejects(c) ==
    /\ cycles[c].pc = "get"
    /\ Fails
    /\ Become(c, IdleCycle)
    /\ UNCHANGED aux
    /\ UNCHANGED <<redis, feed, source, now, initialWm, published, settled, crashes,
                   crashSnap,
                   redelivered>>

\* getLastProcessedTimestamp: the redis.set of the grace value resolves; the
\* value is returned and the fetch issued with it
InitSetResolves(c) ==
    /\ cycles[c].pc = "init"
    /\ redis' = <<cycles[c].last>>
    /\ initialWm' = IF initialWm = <<>> THEN <<cycles[c].last>> ELSE initialWm
    /\ Become(c, [cycles[c] EXCEPT !.pc = "fetch"])
    /\ UNCHANGED aux
    /\ UNCHANGED <<feed, source, now, published, settled, failures, crashes,
                   crashSnap, redelivered>>

InitSetRejects(c) ==
    /\ cycles[c].pc = "init"
    /\ Fails
    /\ Become(c, IdleCycle)
    /\ UNCHANGED aux
    /\ UNCHANGED <<redis, feed, source, now, initialWm, published, settled, crashes,
                   crashSnap,
                   redelivered>>

\* the rows a request with this watermark is answered with
Fetch(timestamp) == Responses(Len(KindOrder), timestamp, BATCH_SIZE)

\* graphqlClient.request resolves: normalize, reverse, enter the loop
FetchResolves(c) ==
    /\ cycles[c].pc = "fetch"
    /\ \E response \in Fetch(cycles[c].last) :
        LET normalizedEvents == normalizeEvents(response)
            eventsToProcess == Reverse(normalizedEvents)
        IN  Become(c, NextEvent([cycles[c] EXCEPT !.batch = eventsToProcess, !.i = 0]))
    /\ UNCHANGED aux
    /\ UNCHANGED <<redis, feed, source, now, initialWm, published, settled, failures,
                   crashes,
                   crashSnap, redelivered>>

FetchRejects(c) ==
    /\ cycles[c].pc = "fetch"
    /\ Fails
    /\ Become(c, IdleCycle)
    /\ UNCHANGED aux
    /\ UNCHANGED <<redis, feed, source, now, initialWm, published, settled, crashes,
                   crashSnap,
                   redelivered>>

\* a loop that writes the watermark once, after the last event of the batch
AfterPostBatched(cy, accepted) ==
    LET done == [cy EXCEPT !.rejected = IF accepted THEN cy.rejected
                                        ELSE cy.rejected \cup {cy.i}]
    IN  IF cy.i < Len(cy.batch) THEN NextEvent(done) ELSE [done EXCEPT !.pc = "update"]

\* what processEvents does once postToFarcaster has returned: the watermark
\* write is issued whether or not the cast was accepted
AfterPost(cy, accepted) ==
    [cy EXCEPT !.pc = "update",
               !.rejected = IF accepted THEN cy.rejected ELSE cy.rejected \cup {cy.i}]

\* postToFarcaster: axios.post resolves with status 200
PostAccepted(c) ==
    /\ cycles[c].pc = "post"
    /\ LET id == cycles[c].batch[cycles[c].i].id IN
        /\ published' = [published EXCEPT ![id] = Bump(published[id])]
        /\ redelivered' = IF id \in crashSnap.accepted
                          THEN redelivered \cup {id} ELSE redelivered
    /\ Become(c, AfterPost(cycles[c], TRUE))
    /\ UNCHANGED aux
    /\ UNCHANGED <<redis, feed, source, now, initialWm, settled, failures, crashes,
                   crashSnap>>

\* postToFarcaster: the signer is missing, axios.post rejects, or the status
\* is not 200; the catch inside postToFarcaster logs and returns normally
PostRejected(c) ==
    /\ cycles[c].pc = "post"
    /\ Fails
    /\ Become(c, AfterPost(cycles[c], FALSE))
    /\ UNCHANGED aux
    /\ UNCHANGED <<redis, feed, source, now, initialWm, published, settled, crashes,
                   crashSnap,
                   redelivered>>

\* updateLastProcessedTimestamp(event.timestamp) resolves; next event
UpdateResolves(c) ==
    /\ cycles[c].pc = "update"
    /\ LET cy == cycles[c]
           event == cy.batch[cy.i]
       IN /\ redis' = <<event.timestamp>>
          /\ settled' = IF cy.i \in cy.rejected THEN settled ELSE settled \cup {event.id}
          /\ Become(c, NextEvent([cy EXCEPT !.wrote = Append(cy.wrote, event.timestamp)]))
    /\ UNCHANGED aux
    /\ UNCHANGED <<feed, source, now, initialWm, published, failures, crashes,
                   crashSnap, redelivered>>

\* a loop that catches the failed write per event and goes on
UpdateRejectsSwallowed(c) ==
    /\ cycles[c].pc = "update"
    /\ Fails
    /\ Become(c, NextEvent(cycles[c]))
    /\ UNCHANGED aux
    /\ UNCHANGED <<redis, feed, source, now, initialWm, published, settled, crashes,
                   crashSnap, redelivered>>

\* updateLastProcessedTimestamp rejects: the throw leaves the for loop and
\* lands in the catch of processEvents
UpdateRejects(c) ==
    /\ cycles[c].pc = "update"
    /\ Fails
    /\ Become(c, IdleCycle)
    /\ UNCHANGED aux
    /\ UNCHANGED <<redis, feed, source, now, initialWm, published, settled, crashes,
                   crashSnap,
                   redelivered>>

\* the process dies (every invocation and the timer with it) and is started
\* again: startPolling() calls processEvents(); Redis keeps the key
CrashRestart ==
    /\ crashes < MaxCrashes
    /\ crashes' = crashes + 1
    /\ crashSnap' = [accepted |-> {id \in Ids : published[id] > 0},
                     inDoubt |-> {id \in Ids : published[id] > 0} \ settled,
                     inLoop |-> \E c \in Slots : cycles[c].pc \in {"post", "update"}]
    /\ redelivered' = {}
    /\ timer' = FALSE
    /\ cycles' = [c \in Slots |->
                    IF c = 1 THEN [IdleCycle EXCEPT !.pc = "get"] ELSE IdleCycle]
    /\ UNCHANGED aux
    /\ UNCHANGED <<redis, feed, source, now, initialWm, published, settled, failures>>

Next ==
    \/ RowsArrive
    \/ TimerTick
    \/ \E c \in Slots : RedisGetResolves(c)
    \/ \E c \in Slots : RedisGetRejects(c)
    \/ \E c \in Slots : InitSetResolves(c)
    \/ \E c \in Slots : InitSetRejects(c)
    \/ \E c \in Slots : FetchResolves(c)
    \/ \E c \in Slots : FetchRejects(c)
    \/ \E c \in Slots : PostAccepted(c)
    \/ \E c \in Slots : PostRejected(c)
    \/ \E c \in Slots : UpdateResolves(c)
    \/ \E c \in Slots : UpdateRejects(c)
    \/ CrashRestart

Spec == Init /\ [][Next]_vars

SpecAll == InitAll /\ [][Next]_vars

\* the timer keeps firing, the rows arrive, and every call that is awaited
\* completes; failures are bounded by MaxFailures, so each service is
\* available from some point on
Resolves(c) ==
    \/ RedisGetResolves(c)
    \/ InitSetResolves(c)
    \/ FetchResolves(c)
    \/ PostAccepted(c)
    \/ UpdateResolves(c)

Fairness ==
    /\ WF_vars(TimerTick)
    /\ WF_vars(RowsArrive)
    /\ \A c \in Slots : WF_vars(Resolves(c))

FairSpec == InitWith({FeedOverflow}) /\ [][Next]_vars /\ Fairness

\* ---------------------------------------------------------------- shutdown
loop == <<redis, feed, source, now, initialWm, published, settled, crashes, crashSnap,
          redelivered, probe, tracked, retractions>>

\* process.on('SIGINT' | 'SIGTERM', cleanup): cleanup() logs and issues
\* redis.quit(); the invocations in flight and the interval timer go on
SignalArrives ==
    /\ proc = "running"
    /\ proc' = "quitting"
    /\ UNCHANGED <<loop, timer, cycles, failures>>

\* cleanup: redis.quit() resolves, process.exit(0) ends the process with
\* whatever is in flight
QuitResolves ==
    /\ proc = "quitting"
    /\ proc' = "exited"
    /\ timer' = FALSE
    /\ cycles' = [c \in Slots |-> IdleCycle]
    /\ UNCHANGED <<loop, failures>>

\* cleanup: redis.quit() rejects; the rejection of cleanup() goes to the
\* 'unhandledRejection' handler, which logs it, and process.exit is not reached
QuitRejects ==
    /\ proc = "quitting"
    /\ Fails
    /\ proc' = "running"
    /\ UNCHANGED <<loop, timer, cycles>>

\* the bot with signals: nothing runs in a process that has exited
NextSignal ==
    \/ (proc # "exited" /\ Next)
    \/ SignalArrives
    \/ QuitResolves
    \/ QuitRejects

SpecSignal == Init /\ [][NextSignal]_vars

\* the bot with signals, on the feed that holds a record the formatter throws on
SpecSignalMalformed == InitWith({FeedMalformed}) /\ [][NextSignal]_vars

\* an invocation has a publish call or its watermark write in flight
InDelivery(c) == cycles[c].pc \in {"post", "update"}

\* ------------------------------------------------- the functions on their own
\* a response with the given rows: row k has id k, and each collection holds
\* its rows in the order given
Times == {GraceStart + t : t \in 1..MaxTime}

RowLists ==
    UNION {[1..n -> (1..Len(KindOrder)) \X Times] : n \in 0..MaxRows}

ResponseOf(rows) ==
    [k \in 1..Len(KindOrder) |->
        LET at == {j \in 1..Len(rows) : rows[j][1] = k}
            Pick[S \in SUBSET at] ==
                IF S = {} THEN <<>>
                ELSE LET j == MinOf(S)
                     IN  <<Row(j, rows[j][2], KindOrder[k], TRUE)>> \o Pick[S \ {j}]
        IN  Pick[at]]

ProbeResponses == {ResponseOf(rows) : rows \in RowLists}

\* part_000 and the second copy in index.ts: one feed, items with eventTime
Pages ==
    UNION {{[k \in 1..n |-> [id |-> k, eventTime |-> t[k]]] : t \in [1..n -> Times]} :
              n \in 0..MaxRows}

\* const eventsToProcess = [...response.events.items].reverse()
eventsToProcessSingle(items) == Reverse(items)

\* times around the boundaries of formatTimeDifference
ProbeTimes == {(1000000000 \div 1000) - age : age \in {0, 59, 3599}}

Event(type, timestamp, data) ==
    [id |-> 1, timestamp |-> timestamp, type |-> type,
     hasDefender |-> data.defenderPlayer # <<>>, data |-> data]

\* a type no case of the switch names
UnknownType == "LEVEL_UP"

ProbeEvents ==
    {Event(type, t, Data(<<<<"a">>>>, <<>>, <<>>, <<>>, amount, 1)) :
        type \in {"GATHER_FOOD", "BUILD_HUT", "CHOP_WOOD", "COMMIT_DEFENSE", UnknownType},
        t \in ProbeTimes, amount \in {1, 2}}
    \cup
    {Event(type, t, Data(<<>>, <<<<"a">>>>, defender, winner, 1, 1)) :
        type \in {"ATTACK_VILLAGE", "REVEAL_BATTLE"}, t \in ProbeTimes,
        defender \in {<<>>, <<<<"b">>>>}, winner \in {<<"a">>, <<"2">>}}

\* usernames and village identifier strings, some contained in others
Usernames == {<<"a">>, <<"b">>, <<"a", "b">>}

VillageIds == {<<>>, <<"a">>, <<"b">>, <<"a", "b">>, <<"b", "a">>, <<"2">>}

\* REVEAL_BATTLE events with both players present
RevealEvents ==
    {Event("REVEAL_BATTLE", 1000000000 \div 1000,
           Data(<<>>, <<attacker>>, <<defender>>, winner, 1, 1)) :
        attacker \in Usernames, defender \in Usernames, winner \in VillageIds}

\* batches for the loop: events of one time, an unknown type among them
LoopEvents == {e \in ProbeEvents : e.timestamp = 1000000000 \div 1000 /\ e.data.amount = 1
                                   /\ e.data.winnerVillageIds # <<"a">>}

Batches == UNION {[1..n -> LoopEvents] : n \in 1..MaxRows}

Call(fn, arg) == [fn |-> fn, arg |-> arg, ret |-> <<>>, done |-> FALSE]

InitPure ==
    /\ redis = <<>>
    /\ feed = {}
    /\ source = {}
    /\ now = 1000000000
    /\ timer = FALSE
    /\ cycles = [c \in Slots |-> IdleCycle]
    /\ initialWm = <<>>
    /\ published = [id \in Ids |-> 0]
    /\ settled = {}
    /\ failures = 0
    /\ crashes = 0
    /\ crashSnap = [accepted |-> {}, inDoubt |-> {}, inLoop |-> FALSE]
    /\ redelivered = {}
    /\ proc = "running"
    /\ probe \in {Call("normalizeEvents", r) : r \in ProbeResponses}
                 \cup {Call("formatEventMessage", e) : e \in ProbeEvents \cup RevealEvents}
                 \cup {Call("reverse", items) : items \in Pages}
                 \cup {Call("loop", b) : b \in Batches}
    /\ tracked = <<>>
    /\ retractions = <<>>

rest == <<redis, feed, source, timer, cycles, initialWm, published, settled, failures,
          crashes, crashSnap, redelivered, proc, tracked, retractions>>

\* Date.now() moves on by a second
ClockAdvances ==
    /\ now < 1000000000 + 1000 * MaxClockSteps
    /\ now' = now + 1000
    /\ UNCHANGED <<rest, probe>>

\* normalizeEvents(response)
NormalizeCall ==
    /\ probe.fn = "normalizeEvents"
    /\ ~probe.done
    /\ probe' = [probe EXCEPT !.ret = <<normalizeEvents(probe.arg)>>, !.done = TRUE]
    /\ UNCHANGED <<rest, now>>

\* formatEventMessage(event), called twice
FormatCall ==
    /\ probe.fn = "formatEventMessage"
    /\ ~probe.done
    /\ probe' = [probe EXCEPT !.ret = Append(probe.ret, formatEventMessage(probe.arg, now)),
                              !.done = (Len(probe.ret) = 1)]
    /\ UNCHANGED <<rest, now>>

\* the single-feed processEvents: the order in which the items are published
ReverseCall ==
    /\ probe.fn = "reverse"
    /\ ~probe.done
    /\ probe' = [probe EXCEPT !.ret = <<eventsToProcessSingle(probe.arg)>>, !.done = TRUE]
    /\ UNCHANGED <<rest, now>>

\* the for loop of processEvents over a given batch, every awaited call
\* resolving: ret collects the messages handed to postToFarcaster
LoopStep ==
    /\ probe.fn = "loop"
    /\ ~probe.done
    /\ LET cy == NextEvent([IdleCycle EXCEPT !.batch = probe.arg, !.i = Len(probe.ret)])
       IN  probe' = IF cy.pc = "post"
                    THEN [probe EXCEPT !.ret = Append(probe.ret,
                              formatEventMessage(cy.batch[cy.i], now).message[1])]
                    ELSE [probe EXCEPT !.done = TRUE]
    /\ UNCHANGED <<rest, now>>

NextPure ==
    \/ ClockAdvances
    \/ NormalizeCall
    \/ FormatCall
    \/ ReverseCall
    \/ LoopStep

SpecPure == InitPure /\ [][NextPure]_vars

\* -------------------------------------------------------- Delivery Tracker
\* record(messageId): push to the front of the retention list; if the list
\* now exceeds the maximum, evict the oldest entry and return it
recordUnbounded(list, messageId, max) ==
    [list |-> <<messageId>> \o list, evicted |-> <<>>]

record(list, messageId, max) ==
    LET pushed == <<messageId>> \o list
    IN  IF Len(pushed) > max
        THEN [list |-> SubSeq(pushed, 1, max), evicted |-> <<pushed[Len(pushed)]>>]
        ELSE [list |-> pushed, evicted |-> <<>>]

\* the identifiers the publish sink hands out, each once
MessageIds == 1..(RetentionMax + 2)

InitTracker ==
    /\ redis = <<>>
    /\ feed = {}
    /\ source = {}
    /\ now = 1000000000
    /\ timer = FALSE
    /\ cycles = [c \in Slots |-> IdleCycle]
    /\ initialWm = <<>>
    /\ published = [id \in Ids |-> 0]
    /\ settled = {}
    /\ failures = 0
    /\ crashes = 0
    /\ crashSnap = [accepted |-> {}, inDoubt |-> {}, inLoop |-> FALSE]
    /\ redelivered = {}
    /\ proc = "running"
    /\ probe \in {[fn |-> "tracker", max |-> n, delivered |-> <<>>] : n \in 1..RetentionMax}
    /\ tracked = <<>>
    /\ retractions = <<>>

\* a publish is accepted with identifier messageId: the tracker records it,
\* and the caller requests the retraction of what was evicted
Deliver(messageId) ==
    /\ \A k \in 1..Len(probe.delivered) : probe.delivered[k] # messageId
    /\ LET r == record(tracked, messageId, probe.max)
       IN  /\ tracked' = r.list
           /\ retractions' = retractions \o r.evicted
    /\ probe' = [probe EXCEPT !.delivered = Append(probe.delivered, messageId)]
    /\ UNCHANGED <<redis, feed, source, now, timer, cycles, initialWm, published,
                   settled, failures, crashes, crashSnap, redelivered, proc>>

NextTracker == \E messageId \in MessageIds : Deliver(messageId)

SpecTracker == InitTracker /\ [][NextTracker]_vars

\* ------------------------------------------------------------------ claims
\* the watermark a cycle should be left at when its k-th publish is the first
\* one rejected
BeforeEvent(cy, k) == IF k = 1 THEN cy.last ELSE cy.batch[k - 1].timestamp

\* C1: every write of updateLastProcessedTimestamp stores a value greater than
\* or equal to the value stored just before it.
WatermarkMonotonic ==
    [][\A c \in Slots : (UpdateResolves(c) /\ redis # <<>>) => redis'[1] >= redis[1]]_vars

\* C2: every row of the feed newer than the first watermark is eventually
\* published, whatever the number of rows pending at a fetch.
AtLeastOnce ==
    <>(\A r \in feed : r.time > FiveMinutesAgo(now) => published[r.id] > 0)

\* C3: every row newer than the first watermark and not newer than the stored
\* watermark has been accepted by the publish sink.
WatermarkBoundary ==
    (redis # <<>> /\ initialWm # <<>>) =>
        \A r \in source :
            (r.time > initialWm[1] /\ r.time <= redis[1]) => published[r.id] > 0

\* C4: after a rejected publish the cycle attempts no further event, and the
\* watermark stays at the last event published before it (or the watermark the
\* cycle started from).
DeliveryFailureAborts ==
    \A c \in Slots :
        cycles[c].rejected # {} =>
            LET k == MinOf(cycles[c].rejected) IN
            /\ cycles[c].i = k
            /\ redis = <<BeforeEvent(cycles[c], k)>>

\* C5: a cycle that ordered 5 events with distinct times and whose 3rd publish
\* failed ends with the watermark at the 2nd event's time, and with events 1
\* and 2 published once.
PartialFailureRecovery ==
    [][\A c \in Slots :
        LET cy == cycles[c] IN
        ( /\ cy.pc # "idle"
          /\ cycles'[c].pc = "idle"
          /\ crashes' = crashes
          /\ Len(cy.batch) = 5
          /\ \A a, b \in 1..5 : a < b => cy.batch[a].timestamp < cy.batch[b].timestamp
          /\ cy.rejected # {}
          /\ MinOf(cy.rejected) = 3 )
        => /\ redis' = <<cy.batch[2].timestamp>>
           /\ published'[cy.batch[1].id] = 1
           /\ published'[cy.batch[2].id] = 1]_vars

NoOverlap == Cardinality(Running) <= 1

\* C8: in a run without a crash, an event whose publish was accepted and whose
\* watermark write has completed is not published again.
AtMostOnceWithoutCrash ==
    [][\A id \in Ids :
        (crashes' = 0 /\ id \in settled) => published'[id] = published[id]]_vars

\* C9: after a crash inside the delivery loop and a restart, the events
\* accepted before the crash and published again are at most one, and only
\* an event whose watermark write had not been persisted.
CrashRedeliveryBound ==
    crashSnap.inLoop =>
        /\ redelivered \subseteq crashSnap.inDoubt
        /\ Cardinality(redelivered) <= 1

\* C10: a cycle whose fetch fails publishes nothing and leaves the stored
\* watermark at the value it read at its start.
FetchFailureKeepsWatermark ==
    [][\A c \in Slots :
        FetchRejects(c) => (published' = published /\ redis' = <<cycles[c].last>>)]_vars

\* C11: the process enters shutdown only when no publish call or watermark
\* write is in flight, and once the signal has been handled no poll cycle and
\* no publish starts.
ShutdownAfterDelivery ==
    [][/\ (proc # "exited" /\ proc' = "exited") => \A c \in Slots : ~InDelivery(c)
       /\ proc = "quitting" =>
            \A c \in Slots :
                /\ (cycles[c].pc = "idle" => cycles'[c].pc = "idle")
                /\ (cycles'[c].pc = "post" => cycles[c] = cycles'[c])]_vars

\* C16: the stored watermark is the initial value or the time of an event
\* whose publish was accepted; never the time of an event whose publish was
\* rejected or skipped.
WatermarkOnlyDelivered ==
    redis # <<>> =>
        \/ initialWm # <<>> /\ redis[1] = initialWm[1]
        \/ \E r \in source : r.time = redis[1] /\ published[r.id] > 0

\* the watermark writes an invocation at event i has completed so far
WritesBefore(cy) == [k \in 1..(cy.i - 1) |-> cy.batch[k].timestamp]

\* C17: within one invocation the write of event k's time has completed when
\* the publish of event k+1 begins, and is not made before the publish of
\* event k has returned: at the publish or the write of event i, the writes
\* made are exactly those of events 1..i-1, in order.
WatermarkPerEvent ==
    \A c \in Slots : InDelivery(c) => cycles[c].wrote = WritesBefore(cycles[c])

\* C17 witness: the publish of the second event of a two-event batch is in
\* flight and the first event's time has been written
SecondPublishAfterFirstWrite ==
    \E c \in Slots :
        /\ cycles[c].pc = "post"
        /\ cycles[c].i = 2
        /\ cycles[c].batch[1].timestamp < cycles[c].batch[2].timestamp
        /\ cycles[c].wrote = <<cycles[c].batch[1].timestamp>>

\* a call of invocation c to an external service has failed in this step
FailedIn(c) == failures' > failures /\ cycles'[c] # cycles[c]

\* C19: a failed read of the watermark (redis.get, or the redis.set of the
\* first run) ends the invocation before any fetch or publish, and a failed
\* watermark write ends the invocation with no further publish.
PersistenceFailureStops ==
    [][\A c \in Slots :
         (cycles[c].pc \in {"get", "init", "update"} /\ FailedIn(c)) =>
            /\ cycles'[c].pc = "idle"
            /\ published' = published]_vars

\* C19 witness: the row at T+1 was published, its watermark write failed, and
\* the invocation ended with the row at T+2 unpublished
WriteFailedAfterPublish ==
    /\ feed = FeedRestart
    /\ failures = 1
    /\ crashes = 0
    /\ published[3] = 1
    /\ published[4] = 0
    /\ settled = {}
    /\ redis = <<GraceStart>>
    /\ \A c \in Slots : cycles[c].pc = "idle"

\* invocation c ends in this step and no call failed, no process died
EndsCleanly(c) ==
    /\ cycles[c].pc # "idle"
    /\ cycles'[c].pc = "idle"
    /\ failures' = failures
    /\ crashes' = crashes

\* C20: a record without defenderPlayer does not end the invocation: an
\* invocation that ends without any failed call has published every event of
\* its batch, and one that ends at the fetch was answered with no rows.
MalformedRecordTolerated ==
    [][\A c \in Slots : EndsCleanly(c) =>
         \/ cycles[c].pc = "update" /\ cycles[c].i = Len(cycles[c].batch)
         \/ cycles[c].pc = "fetch" /\ \A r \in source : ~MatchesWhere(r, cycles[c].last)]_vars

\* the records of a response, and of a normalized sequence, as a set
RecordsIn(response) ==
    UNION {{<<response[k][j].id, response[k][j].time, KindOrder[k]>> :
               j \in 1..Len(response[k])} : k \in 1..Len(KindOrder)}

RecordsOut(events) ==
    {<<events[j].id, events[j].timestamp, events[j].type>> : j \in 1..Len(events)}

\* the returned sequence holds exactly the records given
SameRecords(response, events) ==
    /\ RecordsOut(events) = RecordsIn(response)
    /\ Len(events) = Cardinality(RecordsIn(response))

Normalized == probe.fn = "normalizeEvents" /\ probe.done

\* C12 as stated: normalizeEvents returns exactly the records given, and the
\* timestamps of the sequence are non-decreasing (oldest first).
NormalizedOldestFirst ==
    Normalized =>
        /\ SameRecords(probe.arg, probe.ret[1])
        /\ \A k \in 1..(Len(probe.ret[1]) - 1) :
              probe.ret[1][k].timestamp <= probe.ret[1][k + 1].timestamp

\* C12 amended: normalizeEvents returns exactly the records given, and the
\* timestamps of the sequence are non-increasing (latest first); the caller
\* reverses it.
NormalizedLatestFirst ==
    Normalized =>
        /\ SameRecords(probe.arg, probe.ret[1])
        /\ \A k \in 1..(Len(probe.ret[1]) - 1) :
              probe.ret[1][k].timestamp >= probe.ret[1][k + 1].timestamp

\* C12 witness: one collection held an older row before a newer one, and the
\* returned sequence has the newer one first
NormalizedOutOfOrderInput ==
    /\ Normalized
    /\ \E k \in 1..Len(KindOrder) :
        /\ Len(probe.arg[k]) = 2
        /\ probe.arg[k][1].time < probe.arg[k][2].time
    /\ Len(probe.ret[1]) = 2
    /\ probe.ret[1][1].timestamp > probe.ret[1][2].timestamp

\* C13: two calls of formatEventMessage with the same event return the same
\* message, whatever the clock reads at each call.
FormatDeterministic ==
    (probe.fn = "formatEventMessage" /\ probe.done) => probe.ret[1] = probe.ret[2]

\* C18: the items of a page are published oldest first, whatever the order
\* of the page.
PublishedOldestFirst ==
    (probe.fn = "reverse" /\ probe.done) =>
        \A k \in 1..(Len(probe.ret[1]) - 1) :
            probe.ret[1][k].eventTime <= probe.ret[1][k + 1].eventTime

Known(type) == \E k \in 1..Len(KindOrder) : KindOrder[k] = type

TrackerRetention ==
    /\ Len(tracked) <= probe.max
    /\ Len(probe.delivered) = probe.max + 1 => retractions = <<probe.delivered[1]>>

\* C14 witness: retention maximum 2, three deliveries: the list holds the last
\* two, newest first, and the first was retracted
TrackerEvictedOldest ==
    /\ probe.max = 2
    /\ Len(probe.delivered) = 3
    /\ tracked = <<probe.delivered[3], probe.delivered[2]>>
    /\ retractions = <<probe.delivered[1]>>

\* C21: getLastProcessedTimestamp writes the watermark only when no value is
\* stored, and then writes and returns the clock's whole seconds minus 300
\* (999700 for the clock of Init); when a value is stored it returns that
\* value and writes nothing.
InitialWatermarkOnlyIfAbsent ==
    [][\A c \in Slots :
         /\ (cycles[c].pc = "init" /\ cycles'[c].pc = "fetch") =>
                /\ redis = <<>>
                /\ redis' = <<GraceStart>>
                /\ cycles'[c].last = GraceStart
         /\ (cycles[c].pc = "get" /\ cycles'[c].pc = "init") => redis = <<>>
         /\ (cycles[c].pc = "get" /\ cycles'[c].pc = "fetch") =>
                /\ redis # <<>>
                /\ redis' = redis
                /\ cycles'[c].last = redis[1]]_vars

\* C22: a failed call inside an invocation does not end the process and does
\* not stop the polling: when the invocation ends on it the interval timer is
\* registered, so a later tick starts a new invocation; the process ends only
\* from the signal handler.
ErrorsNeverStopPolling ==
    [][/\ \A c \in Slots : FailedIn(c) =>
              /\ proc' = proc
              /\ cycles'[c].pc = "idle" => timer'
       /\ (proc # "exited" /\ proc' = "exited") => proc = "quitting"
       /\ (timer /\ ~timer') => (crashes' > crashes \/ proc' = "exited")]_vars

\* C22 witness: the first invocation failed at redis.get, and a tick of the
\* timer has started the next one
PolledAgainAfterFailure ==
    /\ proc = "running"
    /\ failures = 1
    /\ crashes = 0
    /\ redis = <<>>
    /\ timer
    /\ cycles[1].pc = "get"

\* sub occurs in s as a run of consecutive characters
OccursIn(sub, s) ==
    \E i \in 1..(Len(s) + 1) : \E j \in (i - 1)..Len(s) : SubSeq(s, i, j) = sub

\* a REVEAL_BATTLE event with both players has been formatted
RevealFormatted ==
    /\ probe.fn = "formatEventMessage"
    /\ probe.arg.type = "REVEAL_BATTLE"
    /\ probe.arg.data.attackerPlayer # <<>>
    /\ probe.arg.data.defenderPlayer # <<>>
    /\ probe.ret # <<>>

\* C23: for a REVEAL_BATTLE event the message names the attacker as winner
\* exactly when the attacker's username occurs as a substring of
\* winnerVillageIds, and the defender otherwise.
RevealWinnerBySubstring ==
    RevealFormatted =>
        LET d == probe.arg.data
            winner == IF OccursIn(d.attackerPlayer[1], d.winnerVillageIds)
                      THEN d.attackerPlayer[1] ELSE d.defenderPlayer[1]
        IN  \A k \in 1..Len(probe.ret) :
                /\ ~probe.ret[k].throws
                /\ probe.ret[k].message[1].other = <<"@">> \o winner

\* C23 witness: attacker "a", defender "ab", winnerVillageIds "ab": the
\* attacker's name is contained in the string and the attacker is named
AttackerNamedBySubstring ==
    /\ RevealFormatted
    /\ probe.arg.data.attackerPlayer = <<<<"a">>>>
    /\ probe.arg.data.defenderPlayer = <<<<"a", "b">>>>
    /\ probe.arg.data.winnerVillageIds = <<"a", "b">>
    /\ probe.ret[1].message[1].other = <<"@", "a">>

====
